---- MODULE Spec2Model ----
(***************************************************************************)
(* Job queue and worker coordination of the bus-alert consumer             *)
(* (src/consumer.py) on a MinIO bucket: job records, the claim, the GPU    *)
(* lease, the poll-claim-process loop and shutdown.  Every MinIO call is   *)
(* one atomic step; workers interleave between calls.                      *)
(***************************************************************************)
EXTENDS Integers, Sequences, FiniteSets, TLC

NumWorkers == 2
NumJobs == 2
MaxOverload == 1
MaxOutages == 1
MaxClock == 32
MAX_GPU_CONCURRENCY == 1
STALE_SECONDS == 30

Workers == 1..NumWorkers
JobIds == 1..NumJobs

NoWorker == 0
NoJob == 0
NoStatus == "none"
NoResponse == "none"
NoResult == "none"

Statuses == {"pending", "processing", "completed", "failed"}
Responses == {"200", "503", "500", "timeout"}
BackendResults == {"alert"}

\* A record that has never been updated has no updated_at.
NoTime == -1

\* A job record; results is what metadata.get('results') gives a reader.
NoRecord == [job_id |-> NoJob, status |-> NoStatus, worker_id |-> NoWorker,
             bus_number |-> 0, results |-> NoResult, updated_at |-> NoTime]

\* The values MAX_GPU_CONCURRENCY takes when leasing is switched off.
LeasingOff == {-1, 0}

\* {job_id}/images.zip: an archive that unpacks, or one whose members do not
\* (the upload endpoint reads only the archive's directory).
Payloads == {"zip", "garbage"}

\* No images.zip under a job id; a file that is no ZIP archive at all.
NoPayload == "none"
NotZip == "notzip"

\* The buses that upload, and the seconds of the clock for which each bus
\* has a job id among JobIds.
NumBuses == 1
Buses == 1..NumBuses
SecondsPerBus == NumJobs \div NumBuses

\* workers/{worker_id}.json, and the absence of that key.
NoBeat == [status |-> NoStatus, job_id |-> NoJob, last_seen |-> 0]

\* A row of the monitor's table, and the absence of a row.
NoRow == [prefix |-> "none", delta |-> 0, gpu |-> FALSE]

VARIABLES
    metadata,      \* {job_id}/metadata.json
    results_json,  \* {job_id}/results.json
    gpu_locks,     \* workers w with a key gpu_locks/{w}.lock
    storeUp,       \* FALSE while MinIO calls raise
    pc,            \* each worker's position in main / process_job
    jobs,          \* the list get_pending_jobs builds; main's for loop is at its head
    scan,          \* get_pending_jobs: the object being looked at
    cur,           \* job_id of claim_job / process_job
    md,            \* update_job_status: the metadata it downloaded
    upd,           \* update_job_status: the status argument
    response,      \* process_job: outcome of requests.post
    result,        \* process_job: response.json()
    stats,         \* stats['processed'], stats['failed']
    overloads,     \* 503 answers the backend has given
    outages,       \* outages MinIO has had
    shutdown,      \* the shutdown flag
    limit,         \* MAX_GPU_CONCURRENCY as read from the environment
    images_zip,    \* {job_id}/images.zip
    workers_json,  \* workers/{worker_id}.json
    hb,            \* each heartbeat thread's position
    now,           \* the wall clock, in seconds
    shown          \* the rows the monitor last printed

vars == <<metadata, results_json, gpu_locks, storeUp, pc, jobs, scan, cur,
          md, upd, response, result, stats, overloads, outages, shutdown,
          limit, images_zip, workers_json, hb, now, shown>>

store == <<metadata, results_json, gpu_locks>>

\* What a worker's main thread reads and never writes: its configuration,
\* the payloads, the heartbeat thread and its records, the clock, the monitor.
background == <<limit, images_zip, workers_json, hb, now, shown>>

\* The record the upload endpoint writes for a new job.
NewJob(j) == [job_id |-> j, status |-> "pending", worker_id |-> NoWorker,
              bus_number |-> j, results |-> NoResult, updated_at |-> NoTime]

\* The worker processes in started have just been launched: each main thread
\* is at the head of its loop, each heartbeat thread before its first beat.
Launched(started) ==
    /\ pc = [w \in Workers |-> IF w \in started THEN "poll" ELSE "exited"]
    /\ jobs = [w \in Workers |-> <<>>]
    /\ scan = [w \in Workers |-> 0]
    /\ cur = [w \in Workers |-> NoJob]
    /\ md = [w \in Workers |-> NoRecord]
    /\ upd = [w \in Workers |-> NoStatus]
    /\ response = [w \in Workers |-> NoResponse]
    /\ result = [w \in Workers |-> NoResult]
    /\ stats = [w \in Workers |-> [processed |-> 0, failed |-> 0]]
    /\ shutdown = [w \in Workers |-> FALSE]
    /\ hb = [w \in Workers |-> IF w \in started THEN "beat" ELSE "done"]

\* The bucket after the uploads: every job pending with its payload, no
\* result yet; stale are lease keys that killed workers have left behind.
Uploaded(payloads, stale) ==
    /\ metadata = [j \in JobIds |-> NewJob(j)]
    /\ results_json = [j \in JobIds |-> NoResult]
    /\ images_zip = payloads
    /\ gpu_locks = stale
    /\ storeUp = TRUE
    /\ overloads = 0
    /\ outages = 0

\* No monitor has run and no heartbeat has been written.
Unobserved ==
    /\ workers_json = [w \in Workers |-> NoBeat]
    /\ now = 0
    /\ shown = [w \in Workers |-> NoRow]

InitWith(started) ==
    /\ Launched(started)
    /\ Uploaded([j \in JobIds |-> "zip"], {})
    /\ Unobserved
    /\ limit = MAX_GPU_CONCURRENCY

Init == InitWith(Workers)

\* Positions inside process_job, its finally block included.
InUpdate(w) == pc[w] \in {"upd_get", "upd_put"}

InClaim(w) == InUpdate(w) /\ upd[w] = "processing"

InProcessJob(w) ==
    \/ pc[w] \in {"acq_list", "acq_put", "acq_relist", "acq_remove",
                  "download", "backend", "backoff", "save", "finally"}
    \/ InUpdate(w) /\ upd[w] # "processing"

\* Past a successful acquire_gpu_lock, before the finally block.
HoldsLease(w) ==
    \/ pc[w] \in {"download", "backend", "backoff", "save"}
    \/ InUpdate(w) /\ upd[w] # "processing"


(***************************************************************************)
(* The poll loop: main and get_pending_jobs.                               *)
(***************************************************************************)

\* The process ends: nothing of the worker's memory is left.
Exit(w) ==
    /\ pc' = [pc EXCEPT ![w] = "exited"]
    /\ jobs' = [jobs EXCEPT ![w] = <<>>]
    /\ scan' = [scan EXCEPT ![w] = 0]
    /\ cur' = [cur EXCEPT ![w] = NoJob]
    /\ stats' = [stats EXCEPT ![w] = [processed |-> 0, failed |-> 0]]

\* list_objects(MINIO_BUCKET, recursive=False): the top-level prefixes of the
\* bucket in key order - gpu_locks/, the job directories (job_...), workers/.
list_objects ==
    <<[dir |-> "gpu_locks", job_id |-> NoJob]>>
        \o [j \in 1..NumJobs |-> [dir |-> "job", job_id |-> j]]
        \o <<[dir |-> "workers", job_id |-> NoJob]>>

\* if job_id in ['workers', 'gpu_locks']: continue
Reserved(obj) == obj.dir \in {"workers", "gpu_locks"}

\* The listed object get_pending_jobs looks at after the i-th: the reserved
\* prefixes are passed over without a store call; 0 when the listing is over.
NextObject(i) ==
    LET rest == {k \in (i + 1)..Len(list_objects) : ~Reserved(list_objects[k])}
    IN IF rest = {} THEN 0 ELSE CHOOSE k \in rest : \A m \in rest : k <= m

\* while not shutdown: jobs = get_pending_jobs() -- the list_objects call.
\* A failed listing returns [], and main sleeps POLL_INTERVAL and polls again.
main_poll(w) ==
    /\ pc[w] = "poll"
    /\ IF shutdown[w]
       THEN Exit(w)
       ELSE /\ pc' = [pc EXCEPT ![w] = IF storeUp THEN "scan" ELSE "poll"]
            /\ scan' = [scan EXCEPT ![w] = IF storeUp THEN NextObject(0) ELSE 0]
            /\ UNCHANGED <<jobs, cur, stats>>
    /\ UNCHANGED <<store, storeUp, md, upd, response, result, shutdown, background, overloads,
                   outages>>

\* get_pending_jobs keeping only pending jobs no worker has owned yet.
get_pending_jobs_unowned(w) ==
    /\ pc[w] = "scan"
    /\ LET j == list_objects[scan[w]].job_id
           found == IF /\ storeUp
                       /\ metadata[j].status = "pending"
                       /\ metadata[j].worker_id = NoWorker
                    THEN Append(jobs[w], [job_id |-> j, status |-> metadata[j].status])
                    ELSE jobs[w]
           last == NextObject(scan[w]) = 0
       IN /\ jobs' = [jobs EXCEPT ![w] = found]
          /\ scan' = [scan EXCEPT ![w] = NextObject(scan[w])]
          /\ pc' = [pc EXCEPT ![w] = IF ~last THEN "scan"
                                     ELSE IF found # <<>> THEN "next" ELSE "poll"]
    /\ UNCHANGED <<store, storeUp, cur, md, upd, response, result, stats, shutdown, background,
                   overloads, outages>>

\* get_pending_jobs keeping every job that is not completed.
get_pending_jobs_unfinished(w) ==
    /\ pc[w] = "scan"
    /\ LET j == list_objects[scan[w]].job_id
           found == IF storeUp /\ metadata[j].status # "completed"
                    THEN Append(jobs[w], [job_id |-> j, status |-> metadata[j].status])
                    ELSE jobs[w]
           last == NextObject(scan[w]) = 0
       IN /\ jobs' = [jobs EXCEPT ![w] = found]
          /\ scan' = [scan EXCEPT ![w] = NextObject(scan[w])]
          /\ pc' = [pc EXCEPT ![w] = IF ~last THEN "scan"
                                     ELSE IF found # <<>> THEN "next" ELSE "poll"]
    /\ UNCHANGED <<store, storeUp, cur, md, upd, response, result, stats, shutdown, background,
                   overloads, outages>>

\* get_pending_jobs, one listed object: get its metadata.json and keep the job
\* when its status is pending; a failed get skips the object.  After the last
\* object main starts its for loop, or sleeps and polls again on an empty list.
get_pending_jobs(w) ==
    /\ pc[w] = "scan"
    /\ LET j == list_objects[scan[w]].job_id
           found == IF storeUp /\ metadata[j].status = "pending"
                    THEN Append(jobs[w], [job_id |-> j, status |-> metadata[j].status])
                    ELSE jobs[w]
           last == NextObject(scan[w]) = 0
       IN /\ jobs' = [jobs EXCEPT ![w] = found]
          /\ scan' = [scan EXCEPT ![w] = NextObject(scan[w])]
          /\ pc' = [pc EXCEPT ![w] = IF ~last THEN "scan"
                                     ELSE IF found # <<>> THEN "next" ELSE "poll"]
    /\ UNCHANGED <<store, storeUp, cur, md, upd, response, result, stats, shutdown, background,
                   overloads, outages>>

(***************************************************************************)
(* claim_job, update_job_status and what the callers do with the answer.   *)
(***************************************************************************)

\* update_return with main ignoring claim_job's answer.
update_return_ignoring_claim(w, ok) ==
    LET claim == upd[w] = "processing" IN
    /\ pc' = [pc EXCEPT ![w] = IF claim THEN "acq_list" ELSE "finally"]
    /\ UNCHANGED <<jobs, cur>>
    /\ stats' = [stats EXCEPT ![w] =
                   IF upd[w] = "completed" THEN [@ EXCEPT !.processed = @ + 1]
                   ELSE IF upd[w] = "failed" THEN [@ EXCEPT !.failed = @ + 1]
                   ELSE @]
    /\ upd' = [upd EXCEPT ![w] = NoStatus]
    /\ md' = [md EXCEPT ![w] = NoRecord]

\* The return of update_job_status(job_id, status) to its call site.
\* claim_job (status processing) hands the answer to main, which starts
\* process_job on True and moves to the next candidate on False; process_job
\* ignores the answer, counts the job (completed: processed, failed: failed)
\* and falls into its finally block.
update_return(w, ok) ==
    LET claim == upd[w] = "processing" IN
    /\ pc' = [pc EXCEPT ![w] = IF claim THEN (IF ok THEN "acq_list" ELSE "next")
                               ELSE "finally"]
    /\ jobs' = [jobs EXCEPT ![w] = IF claim /\ ~ok THEN Tail(@) ELSE @]
    /\ cur' = [cur EXCEPT ![w] = IF claim /\ ~ok THEN NoJob ELSE @]
    /\ stats' = [stats EXCEPT ![w] =
                   IF upd[w] = "completed" THEN [@ EXCEPT !.processed = @ + 1]
                   ELSE IF upd[w] = "failed" THEN [@ EXCEPT !.failed = @ + 1]
                   ELSE @]
    /\ upd' = [upd EXCEPT ![w] = NoStatus]
    /\ md' = [md EXCEPT ![w] = NoRecord]

\* update_job_status: get_object of the job's metadata.json.
update_job_status_get(w) ==
    /\ pc[w] = "upd_get"
    /\ IF storeUp
       THEN /\ md' = [md EXCEPT ![w] = metadata[cur[w]]]
            /\ pc' = [pc EXCEPT ![w] = "upd_put"]
            /\ UNCHANGED <<jobs, cur, stats, upd>>
       ELSE update_return(w, FALSE)
    /\ UNCHANGED <<store, storeUp, scan, response, result, shutdown, background, overloads,
                   outages>>

\* update_job_status building the record anew from its arguments.
UpdatedRecord_rebuilt(w) ==
    [NoRecord EXCEPT !.job_id = cur[w], !.status = upd[w], !.worker_id = w,
                     !.updated_at = now]

\* The record update_job_status uploads: the downloaded one with status,
\* worker_id and updated_at overwritten (the results argument is not used).
UpdatedRecord(w) ==
    [md[w] EXCEPT !.status = upd[w], !.worker_id = w, !.updated_at = now]

\* update_job_status_put writing only if the record is still the one read.
update_job_status_put_verified(w) ==
    /\ pc[w] = "upd_put"
    /\ LET same == storeUp /\ metadata[cur[w]] = md[w] IN
         /\ metadata' = IF same THEN [metadata EXCEPT ![cur[w]] = UpdatedRecord(w)]
                        ELSE metadata
         /\ update_return(w, same)
    /\ UNCHANGED <<results_json, gpu_locks, storeUp, scan, response, result, shutdown,
                   background, overloads, outages>>

\* update_job_status: put_object of the changed metadata.json.
update_job_status_put(w) ==
    /\ pc[w] = "upd_put"
    /\ metadata' = IF storeUp THEN [metadata EXCEPT ![cur[w]] = UpdatedRecord(w)]
                   ELSE metadata
    /\ update_return(w, storeUp)
    /\ UNCHANGED <<results_json, gpu_locks, storeUp, scan, response, result, shutdown, background,
                   overloads, outages>>

\* claim_job(job_id, metadata): the status it tests is the one in the
\* metadata get_pending_jobs listed.
claim_job(w) ==
    IF Head(jobs[w]).status # "pending"
    THEN /\ jobs' = [jobs EXCEPT ![w] = Tail(@)]
         /\ UNCHANGED <<pc, cur, upd>>
    ELSE /\ cur' = [cur EXCEPT ![w] = Head(jobs[w]).job_id]
         /\ upd' = [upd EXCEPT ![w] = "processing"]
         /\ pc' = [pc EXCEPT ![w] = "upd_get"]
         /\ UNCHANGED jobs

\* The head of "for job_id, metadata in jobs": the loop ends with the list,
\* breaks on shutdown, and otherwise calls claim_job for the candidate.
main_for(w) ==
    /\ pc[w] = "next"
    /\ IF jobs[w] = <<>>
       THEN /\ pc' = [pc EXCEPT ![w] = "poll"]
            /\ UNCHANGED <<jobs, scan, cur, upd, stats>>
       ELSE IF shutdown[w]
       THEN Exit(w) /\ UNCHANGED upd
       ELSE claim_job(w) /\ UNCHANGED <<scan, stats>>
    /\ UNCHANGED <<store, storeUp, md, response, result, shutdown, background, overloads, outages>>

(***************************************************************************)
(* The GPU lease: acquire_gpu_lock, one MinIO call per step, as polled by  *)
(* "while not shutdown and not acquire_gpu_lock(): time.sleep(2)".  A      *)
(* failed attempt leaves the worker at acq_list, where it polls again.     *)
(***************************************************************************)

\* The loop test and the first list_objects of gpu_locks/.
acquire_list(w) ==
    /\ pc[w] = "acq_list"
    /\ pc' = [pc EXCEPT ![w] =
                IF shutdown[w] THEN "finally"
                ELSE IF limit <= 0 THEN "download"
                ELSE IF storeUp /\ Cardinality(gpu_locks) < limit
                THEN "acq_put"
                ELSE "acq_list"]
    /\ UNCHANGED <<store, storeUp, jobs, scan, cur, md, upd, response, result,
                   stats, shutdown, background, overloads, outages>>

\* put_object of gpu_locks/{WORKER_ID}.lock.
acquire_put(w) ==
    /\ pc[w] = "acq_put"
    /\ gpu_locks' = IF storeUp THEN gpu_locks \cup {w} ELSE gpu_locks
    /\ pc' = [pc EXCEPT ![w] = IF storeUp THEN "acq_relist" ELSE "acq_list"]
    /\ UNCHANGED <<metadata, results_json, storeUp, jobs, scan, cur, md, upd,
                   response, result, stats, shutdown, background, overloads, outages>>

\* acquire_relist without the re-verification of the key count.
acquire_relist_unverified(w) ==
    /\ pc[w] = "acq_relist"
    /\ pc' = [pc EXCEPT ![w] = IF ~storeUp THEN "acq_list" ELSE "download"]
    /\ UNCHANGED <<store, storeUp, jobs, scan, cur, md, upd, response, result,
                   stats, shutdown, background, overloads, outages>>

\* The second list_objects: more keys than the limit means the race was lost.
acquire_relist(w) ==
    /\ pc[w] = "acq_relist"
    /\ pc' = [pc EXCEPT ![w] =
                IF ~storeUp THEN "acq_list"
                ELSE IF Cardinality(gpu_locks) > limit THEN "acq_remove"
                ELSE "download"]
    /\ UNCHANGED <<store, storeUp, jobs, scan, cur, md, upd, response, result,
                   stats, shutdown, background, overloads, outages>>

\* remove_object of the key just written, then return False.
acquire_remove(w) ==
    /\ pc[w] = "acq_remove"
    /\ gpu_locks' = IF storeUp THEN gpu_locks \ {w} ELSE gpu_locks
    /\ pc' = [pc EXCEPT ![w] = "acq_list"]
    /\ UNCHANGED <<metadata, results_json, storeUp, jobs, scan, cur, md, upd,
                   response, result, stats, shutdown, background, overloads, outages>>

\* acquire_gpu_lock with "<=" for "<" in its first test of the key count.
acquire_gpu_lock_off_by_one(w, locks, up) ==
    IF limit <= 0 THEN [ok |-> TRUE, locks |-> locks]
    ELSE IF ~up[1] THEN [ok |-> FALSE, locks |-> locks]
    ELSE IF ~(Cardinality(locks) <= limit) THEN [ok |-> FALSE, locks |-> locks]
    ELSE IF ~up[2] THEN [ok |-> FALSE, locks |-> locks]
    ELSE IF ~up[3] THEN [ok |-> FALSE, locks |-> locks \cup {w}]
    ELSE IF Cardinality(locks \cup {w}) > limit
    THEN [ok |-> FALSE, locks |-> IF up[4] THEN locks ELSE locks \cup {w}]
    ELSE [ok |-> TRUE, locks |-> locks \cup {w}]

\* acquire_gpu_lock with "< 0" for "<= 0" in its test for leasing off.
acquire_gpu_lock_zero_limited(w, locks, up) ==
    IF limit < 0 THEN [ok |-> TRUE, locks |-> locks]
    ELSE IF ~up[1] THEN [ok |-> FALSE, locks |-> locks]
    ELSE IF ~(Cardinality(locks) < limit) THEN [ok |-> FALSE, locks |-> locks]
    ELSE IF ~up[2] THEN [ok |-> FALSE, locks |-> locks]
    ELSE IF ~up[3] THEN [ok |-> FALSE, locks |-> locks \cup {w}]
    ELSE IF Cardinality(locks \cup {w}) > limit
    THEN [ok |-> FALSE, locks |-> IF up[4] THEN locks ELSE locks \cup {w}]
    ELSE [ok |-> TRUE, locks |-> locks \cup {w}]

\* acquire_gpu_lock as a function of the keys it finds; up[i] tells whether
\* its i-th MinIO call (list, put, list, remove) succeeds.
acquire_gpu_lock(w, locks, up) ==
    IF limit <= 0 THEN [ok |-> TRUE, locks |-> locks]
    ELSE IF ~up[1] THEN [ok |-> FALSE, locks |-> locks]
    ELSE IF ~(Cardinality(locks) < limit) THEN [ok |-> FALSE, locks |-> locks]
    ELSE IF ~up[2] THEN [ok |-> FALSE, locks |-> locks]
    ELSE IF ~up[3] THEN [ok |-> FALSE, locks |-> locks \cup {w}]
    ELSE IF Cardinality(locks \cup {w}) > limit
    THEN [ok |-> FALSE, locks |-> IF up[4] THEN locks ELSE locks \cup {w}]
    ELSE [ok |-> TRUE, locks |-> locks \cup {w}]

\* The outages that begin within a sequence of store states.
Downs(up) == Cardinality({i \in 1..(Len(up) - 1) : up[i] /\ ~up[i + 1]})

\* One whole acquire_gpu_lock call without another worker's call in between
\* (the store may still fail, or recover, between its own MinIO calls).
acquire_serial(w) ==
    /\ pc[w] = "acq_list"
    /\ IF shutdown[w]
       THEN /\ pc' = [pc EXCEPT ![w] = "finally"]
            /\ UNCHANGED <<gpu_locks, storeUp, outages>>
       ELSE \E u2, u3, u4 \in BOOLEAN :
              LET up == <<storeUp, u2, u3, u4>>
                  r == acquire_gpu_lock(w, gpu_locks, up)
              IN /\ outages + Downs(up) <= MaxOutages
                 /\ outages' = outages + Downs(up)
                 /\ gpu_locks' = r.locks
                 /\ pc' = [pc EXCEPT ![w] = IF r.ok THEN "download" ELSE "acq_list"]
                 /\ storeUp' = u4
    /\ UNCHANGED <<metadata, results_json, jobs, scan, cur, md, upd, response,
                   result, stats, shutdown, background, overloads>>

(***************************************************************************)
(* process_job after the lease: download, backend call, outcome, finally.  *)
(***************************************************************************)

\* RaiseInJob without the handler: the exception only unwinds process_job.
RaiseInJob_unhandled(w) ==
    /\ pc' = [pc EXCEPT ![w] = "finally"]
    /\ UNCHANGED upd

\* An exception in the try body: the "except Exception" handler calls
\* update_job_status(job_id, 'failed', ...).
RaiseInJob(w) ==
    /\ upd' = [upd EXCEPT ![w] = "failed"]
    /\ pc' = [pc EXCEPT ![w] = "upd_get"]

\* fget_object of {job_id}/images.zip and the unpacking of the archive.
download(w) ==
    /\ pc[w] = "download"
    /\ IF storeUp /\ images_zip[cur[w]] = "zip"
       THEN pc' = [pc EXCEPT ![w] = "backend"] /\ UNCHANGED upd
       ELSE RaiseInJob(w)
    /\ UNCHANGED <<store, storeUp, jobs, scan, cur, md, response, result, stats,
                   shutdown, background, overloads, outages>>

\* requests.post to the backend and the branch on its answer: 200 keeps the
\* result for saving; 503 backs off (time.sleep(5)); anything else, and a
\* timeout, mark the job failed.
call_backend(w) ==
    /\ pc[w] = "backend"
    /\ \E resp \in Responses, r \in BackendResults :
         /\ resp = "503" => overloads < MaxOverload
         /\ overloads' = IF resp = "503" THEN overloads + 1 ELSE overloads
         /\ response' = [response EXCEPT ![w] = resp]
         /\ result' = [result EXCEPT ![w] = IF resp = "200" THEN r ELSE NoResult]
         /\ pc' = [pc EXCEPT ![w] = IF resp = "200" THEN "save"
                                    ELSE IF resp = "503" THEN "backoff"
                                    ELSE "upd_get"]
         /\ upd' = [upd EXCEPT ![w] = IF resp \in {"200", "503"} THEN NoStatus
                                      ELSE "failed"]
    /\ UNCHANGED <<store, storeUp, jobs, scan, cur, md, stats, shutdown, background, outages>>

\* The 503 branch treated like any other backend error.
overload_requeue_failed(w) ==
    /\ pc[w] = "backoff"
    /\ upd' = [upd EXCEPT ![w] = "failed"]
    /\ pc' = [pc EXCEPT ![w] = "upd_get"]
    /\ UNCHANGED <<store, storeUp, jobs, scan, cur, md, response, result, stats,
                   shutdown, background, overloads, outages>>

\* The 503 branch leaving the record as it is, processing.
overload_requeue_unwritten(w) ==
    /\ pc[w] = "backoff"
    /\ stats' = [stats EXCEPT ![w].failed = @ + 1]
    /\ pc' = [pc EXCEPT ![w] = "finally"]
    /\ UNCHANGED <<store, storeUp, jobs, scan, cur, md, upd, response, result,
                   shutdown, background, overloads, outages>>

\* The 503 branch after its sleep: the attempt is counted as failed and the
\* job goes back to pending through update_job_status.
overload_requeue(w) ==
    /\ pc[w] = "backoff"
    /\ stats' = [stats EXCEPT ![w].failed = @ + 1]
    /\ upd' = [upd EXCEPT ![w] = "pending"]
    /\ pc' = [pc EXCEPT ![w] = "upd_get"]
    /\ UNCHANGED <<store, storeUp, jobs, scan, cur, md, response, result, shutdown, background,
                   overloads, outages>>

\* save_results without the put of results.json.
save_results_skipped(w) ==
    /\ pc[w] = "save"
    /\ IF storeUp
       THEN /\ upd' = [upd EXCEPT ![w] = "completed"]
            /\ pc' = [pc EXCEPT ![w] = "upd_get"]
       ELSE RaiseInJob(w)
    /\ UNCHANGED <<store, storeUp, jobs, scan, cur, md, response, result, stats,
                   shutdown, background, overloads, outages>>

\* save_results swallowing a failed put of results.json and going on to
\* update_job_status 'completed'.
save_results_unguarded(w) ==
    /\ pc[w] = "save"
    /\ results_json' = IF storeUp THEN [results_json EXCEPT ![cur[w]] = result[w]]
                       ELSE results_json
    /\ upd' = [upd EXCEPT ![w] = "completed"]
    /\ pc' = [pc EXCEPT ![w] = "upd_get"]
    /\ UNCHANGED <<metadata, gpu_locks, storeUp, jobs, scan, cur, md, response,
                   result, stats, shutdown, background, overloads, outages>>

\* put_object of {job_id}/results.json, then update_job_status 'completed'.
save_results(w) ==
    /\ pc[w] = "save"
    /\ IF storeUp
       THEN /\ results_json' = [results_json EXCEPT ![cur[w]] = result[w]]
            /\ upd' = [upd EXCEPT ![w] = "completed"]
            /\ pc' = [pc EXCEPT ![w] = "upd_get"]
       ELSE RaiseInJob(w) /\ UNCHANGED results_json
    /\ UNCHANGED <<metadata, gpu_locks, storeUp, jobs, scan, cur, md, response,
                   result, stats, shutdown, background, overloads, outages>>

\* release_gpu_lock removing the first key listed instead of the worker's own.
release_gpu_lock_first(w, locks) ==
    IF storeUp /\ locks # {}
    THEN locks \ {CHOOSE v \in locks : \A u \in locks : v <= u}
    ELSE locks

\* release_gpu_lock: remove_object of the worker's own key, errors swallowed.
release_gpu_lock(w, locks) == IF storeUp THEN locks \ {w} ELSE locks

\* process_job_finally clearing every lease key, not only the worker's own.
process_job_finally_clearing(w) ==
    /\ pc[w] = "finally"
    /\ gpu_locks' = IF storeUp THEN {} ELSE gpu_locks
    /\ pc' = [pc EXCEPT ![w] = "next"]
    /\ jobs' = [jobs EXCEPT ![w] = Tail(@)]
    /\ cur' = [cur EXCEPT ![w] = NoJob]
    /\ response' = [response EXCEPT ![w] = NoResponse]
    /\ result' = [result EXCEPT ![w] = NoResult]
    /\ UNCHANGED <<metadata, results_json, storeUp, scan, md, upd, stats, shutdown,
                   background, overloads, outages>>

\* The finally block of process_job, and the return to the for loop.
process_job_finally(w) ==
    /\ pc[w] = "finally"
    /\ gpu_locks' = release_gpu_lock(w, gpu_locks)
    /\ pc' = [pc EXCEPT ![w] = "next"]
    /\ jobs' = [jobs EXCEPT ![w] = Tail(@)]
    /\ cur' = [cur EXCEPT ![w] = NoJob]
    /\ response' = [response EXCEPT ![w] = NoResponse]
    /\ result' = [result EXCEPT ![w] = NoResult]
    /\ UNCHANGED <<metadata, results_json, storeUp, scan, md, upd, stats, shutdown, background,
                   overloads, outages>>

(***************************************************************************)
(* Shutdown and the store's availability.                                  *)
(***************************************************************************)

\* signal_handler ending the process without running the finally block.
signal_handler_no_cleanup(w) ==
    /\ pc[w] \notin {"exited", "crashed", "crashed_holding"}
    /\ ~shutdown[w]
    /\ shutdown' = [shutdown EXCEPT ![w] = TRUE]
    /\ Exit(w)
    /\ upd' = [upd EXCEPT ![w] = NoStatus]
    /\ md' = [md EXCEPT ![w] = NoRecord]
    /\ response' = [response EXCEPT ![w] = NoResponse]
    /\ result' = [result EXCEPT ![w] = NoResult]
    /\ UNCHANGED <<store, storeUp, overloads, outages, background>>

\* signal_handler only setting the flag, without sys.exit.
signal_handler_flag_only(w) ==
    /\ pc[w] \notin {"exited", "crashed", "crashed_holding"}
    /\ ~shutdown[w]
    /\ shutdown' = [shutdown EXCEPT ![w] = TRUE]
    /\ UNCHANGED <<store, storeUp, pc, jobs, scan, cur, md, upd, response, result,
                   stats, overloads, outages, background>>

\* SIGINT/SIGTERM: signal_handler sets shutdown and raises SystemExit in the
\* main thread.  Inside process_job the exception (or the shutdown test of
\* the lease loop) leads to the finally block; in claim_job the bare except
\* answers False and the for loop breaks; elsewhere the process ends.
signal_handler(w) ==
    /\ pc[w] \notin {"exited", "crashed", "crashed_holding"}
    /\ ~shutdown[w]
    /\ shutdown' = [shutdown EXCEPT ![w] = TRUE]
    /\ IF InProcessJob(w)
       THEN /\ pc' = [pc EXCEPT ![w] = "finally"]
            /\ UNCHANGED <<jobs, scan, cur, stats>>
       ELSE Exit(w)
    /\ upd' = [upd EXCEPT ![w] = NoStatus]
    /\ md' = [md EXCEPT ![w] = NoRecord]
    /\ UNCHANGED <<store, storeUp, response, result, overloads, outages, background>>

\* MinIO becomes unreachable: every call raises until it recovers.
StoreOutage ==
    /\ storeUp
    /\ outages < MaxOutages
    /\ storeUp' = FALSE
    /\ outages' = outages + 1
    /\ UNCHANGED <<store, pc, jobs, scan, cur, md, upd, response, result, stats,
                   shutdown, background, overloads>>

StoreRecover ==
    /\ ~storeUp
    /\ storeUp' = TRUE
    /\ UNCHANGED <<store, pc, jobs, scan, cur, md, upd, response, result, stats,
                   shutdown, background, overloads, outages>>

(***************************************************************************)
(* The heartbeat thread of a worker, and the monitor (monitor_workers.py). *)
(***************************************************************************)

\* stats['current_status'] and stats['current_job']: set on entry to
\* process_job, reset in its finally block.
current_status(w) == IF InProcessJob(w) THEN "PROCESSING" ELSE "IDLE"

current_job(w) == IF InProcessJob(w) THEN cur[w] ELSE NoJob

\* heartbeat_thread evaluating the first argument of its send_heartbeat call,
\* stats.get('current_status', 'IDLE'); the thread's position then carries the
\* value read.  The main thread may run before the second argument is read.
heartbeat_args(w) ==
    /\ hb[w] = "beat"
    /\ pc[w] # "exited"
    /\ hb' = [hb EXCEPT ![w] = current_status(w)]
    /\ UNCHANGED <<store, storeUp, pc, jobs, scan, cur, md, upd, response, result,
                   stats, overloads, outages, shutdown, limit, images_zip,
                   workers_json, now, shown>>

\* The first argument has been read, the second has not.
Sending(w) == hb[w] \in {"IDLE", "PROCESSING"}

\* send_heartbeat without its try/except: a failed put ends the thread.
send_heartbeat_unguarded(w) ==
    /\ Sending(w)
    /\ pc[w] # "exited"
    /\ workers_json' =
         IF storeUp
         THEN [workers_json EXCEPT ![w] = [status |-> hb[w],
                                           job_id |-> current_job(w),
                                           last_seen |-> now]]
         ELSE workers_json
    /\ hb' = [hb EXCEPT ![w] = IF storeUp THEN "sleep" ELSE "done"]
    /\ UNCHANGED <<store, storeUp, pc, jobs, scan, cur, md, upd, response, result,
                   stats, overloads, outages, shutdown, limit, images_zip, now, shown>>

\* The second argument, stats.get('current_job'), and send_heartbeat:
\* put_object of workers/{WORKER_ID}.json; a failed put is swallowed.  Then
\* heartbeat_thread sleeps.
send_heartbeat(w) ==
    /\ Sending(w)
    /\ pc[w] # "exited"
    /\ workers_json' =
         IF storeUp
         THEN [workers_json EXCEPT ![w] = [status |-> hb[w],
                                           job_id |-> current_job(w),
                                           last_seen |-> now]]
         ELSE workers_json
    /\ hb' = [hb EXCEPT ![w] = "sleep"]
    /\ UNCHANGED <<store, storeUp, pc, jobs, scan, cur, md, upd, response, result,
                   stats, overloads, outages, shutdown, limit, images_zip, now, shown>>

\* A heartbeat loop that runs between jobs only: it waits while the main
\* thread is inside process_job.
heartbeat_thread_between_jobs(w) ==
    /\ hb[w] = "sleep"
    /\ pc[w] # "exited"
    /\ ~InProcessJob(w)
    /\ hb' = [hb EXCEPT ![w] = IF shutdown[w] THEN "done" ELSE "beat"]
    /\ UNCHANGED <<store, storeUp, pc, jobs, scan, cur, md, upd, response, result,
                   stats, overloads, outages, shutdown, limit, images_zip,
                   workers_json, now, shown>>

\* heartbeat_thread after its sleep: "while not shutdown".
heartbeat_thread(w) ==
    /\ hb[w] = "sleep"
    /\ pc[w] # "exited"
    /\ hb' = [hb EXCEPT ![w] = IF shutdown[w] THEN "done" ELSE "beat"]
    /\ UNCHANGED <<store, storeUp, pc, jobs, scan, cur, md, upd, response, result,
                   stats, overloads, outages, shutdown, limit, images_zip,
                   workers_json, now, shown>>

\* The monitor's reads: the workers that have a heartbeat record, the
\* workers that have a lease key; a failed listing gives nothing.
get_workers == IF storeUp THEN {w \in Workers : workers_json[w] # NoBeat} ELSE {}

get_gpu_locks == IF storeUp THEN gpu_locks ELSE {}

\* The monitor's mark for a heartbeat that is delta seconds old.
status_prefix(delta) == IF delta < STALE_SECONDS THEN "[OK]" ELSE "[STALE]"

\* monitor_main deleting the lease keys of workers it sees no fresh heartbeat
\* from.
monitor_main_reaping ==
    /\ shown' = [w \in Workers |->
                   IF w \in get_workers
                   THEN LET delta == now - workers_json[w].last_seen
                        IN [prefix |-> status_prefix(delta),
                            delta |-> delta,
                            gpu |-> w \in get_gpu_locks]
                   ELSE NoRow]
    /\ gpu_locks' = {w \in gpu_locks :
                       /\ w \in get_workers
                       /\ now - workers_json[w].last_seen < STALE_SECONDS}
    /\ UNCHANGED <<metadata, results_json, storeUp, pc, jobs, scan, cur, md, upd,
                   response, result, stats, overloads, outages, shutdown, limit,
                   images_zip, workers_json, hb, now>>

\* One refresh of the monitor's table.
monitor_main ==
    /\ shown' = [w \in Workers |->
                   IF w \in get_workers
                   THEN LET delta == now - workers_json[w].last_seen
                        IN [prefix |-> status_prefix(delta),
                            delta |-> delta,
                            gpu |-> w \in get_gpu_locks]
                   ELSE NoRow]
    /\ UNCHANGED <<store, storeUp, pc, jobs, scan, cur, md, upd, response, result,
                   stats, overloads, outages, shutdown, limit, images_zip,
                   workers_json, hb, now>>

\* The worker process is killed (SIGKILL, power loss): no handler and no
\* finally block runs, its threads and its memory are gone, and whatever it
\* wrote to the store stays.  The position it ends in records whether it was
\* holding a lease when it was killed.
crash(w) ==
    /\ pc[w] \notin {"exited", "crashed", "crashed_holding"}
    /\ pc' = [pc EXCEPT ![w] = IF HoldsLease(w) THEN "crashed_holding"
                                ELSE "crashed"]
    /\ jobs' = [jobs EXCEPT ![w] = <<>>]
    /\ scan' = [scan EXCEPT ![w] = 0]
    /\ cur' = [cur EXCEPT ![w] = NoJob]
    /\ md' = [md EXCEPT ![w] = NoRecord]
    /\ upd' = [upd EXCEPT ![w] = NoStatus]
    /\ response' = [response EXCEPT ![w] = NoResponse]
    /\ result' = [result EXCEPT ![w] = NoResult]
    /\ stats' = [stats EXCEPT ![w] = [processed |-> 0, failed |-> 0]]
    /\ hb' = [hb EXCEPT ![w] = "done"]
    /\ UNCHANGED <<store, storeUp, overloads, outages, shutdown, limit,
                   images_zip, workers_json, now, shown>>

\* A second passes.
Tick ==
    /\ now < MaxClock
    /\ now' = now + 1
    /\ UNCHANGED <<store, storeUp, pc, jobs, scan, cur, md, upd, response, result,
                   stats, overloads, outages, shutdown, limit, images_zip,
                   workers_json, hb, shown>>

(***************************************************************************)
(* The upload endpoint (upload_api.py).                                    *)
(***************************************************************************)

\* job_id = f"job_{bus_number}_{timestamp.strftime('%Y%m%d_%H%M%S')}": the
\* id is a function of the bus number and of the clock cut to whole seconds,
\* different for different pairs.  Ids are numbered bus by bus, second by
\* second.
job_id(bus_number, timestamp) == (bus_number - 1) * SecondsPerBus + timestamp + 1

\* POST /upload: a file that is no ZIP archive is refused (400); any other
\* is stored as {job_id}/images.zip with a pending metadata.json, and the
\* job id is returned.
upload(bus_number, file) ==
    /\ storeUp
    /\ now < SecondsPerBus
    /\ LET j == job_id(bus_number, now) IN
         IF file = NotZip
         THEN UNCHANGED <<metadata, images_zip>>
         ELSE /\ images_zip' = [images_zip EXCEPT ![j] = file]
              /\ metadata' = [metadata EXCEPT ![j] =
                                [NewJob(j) EXCEPT !.bus_number = bus_number]]
    /\ UNCHANGED <<results_json, gpu_locks, storeUp, pc, jobs, scan, cur, md, upd,
                   response, result, stats, overloads, outages, shutdown, limit,
                   workers_json, hb, now, shown>>

(***************************************************************************)
(* Specifications.                                                         *)
(***************************************************************************)

\* What a worker does besides acquiring the lease.
loop_step(w) ==
    \/ main_poll(w)
    \/ get_pending_jobs(w)
    \/ main_for(w)
    \/ update_job_status_get(w)
    \/ update_job_status_put(w)
    \/ download(w)
    \/ call_backend(w)
    \/ overload_requeue(w)
    \/ save_results(w)
    \/ process_job_finally(w)

acquire_step(w) ==
    \/ acquire_list(w)
    \/ acquire_put(w)
    \/ acquire_relist(w)
    \/ acquire_remove(w)

worker(w) == loop_step(w) \/ acquire_step(w)

\* Workers interleaving at every MinIO call, store outages, signals.
Next ==
    \/ \E w \in Workers : worker(w)
    \/ \E w \in Workers : signal_handler(w)
    \/ StoreOutage
    \/ StoreRecover

Spec == Init /\ [][Next]_vars

\* The same, with acquire_gpu_lock calls running one at a time.
NextSerial ==
    \/ \E w \in Workers : loop_step(w)
    \/ \E w \in Workers : acquire_serial(w)
    \/ \E w \in Workers : signal_handler(w)
    \/ StoreOutage
    \/ StoreRecover

SpecSerial == Init /\ [][NextSerial]_vars

\* Workers that keep running on a store that answers: no signal, no outage.
\* Any non-empty set of workers has been started; each is its own process,
\* so each keeps taking steps.
InitLive == \E started \in SUBSET Workers : started # {} /\ InitWith(started)

NextLive == \E w \in Workers : worker(w)

SpecLive == InitLive /\ [][NextLive]_vars /\ \A w \in Workers : WF_vars(worker(w))

\* The same with outages that end: MinIO comes back after it went away.
NextOutage ==
    \/ \E w \in Workers : worker(w)
    \/ StoreOutage
    \/ StoreRecover

SpecOutage ==
    /\ InitLive
    /\ [][NextOutage]_vars
    /\ \A w \in Workers : WF_vars(worker(w))
    /\ WF_vars(StoreRecover)

\* One worker is started on a bucket in which killed workers may have left
\* their lease keys.
InitAlone(payloads, limits) ==
    \E started \in SUBSET Workers :
        /\ Cardinality(started) = 1
        /\ Launched(started)
        /\ Unobserved
        /\ limit \in limits
        /\ \E p \in payloads, stale \in SUBSET (Workers \ started) : Uploaded(p, stale)

\* Jobs whose payload may be no archive.
InitErrors == InitAlone([JobIds -> Payloads], {MAX_GPU_CONCURRENCY})

SpecErrors == InitErrors /\ [][NextSerial]_vars

\* Leasing switched off by the environment.
InitLeaseOff == InitAlone({[j \in JobIds |-> "zip"]}, LeasingOff)

SpecLeaseOff == InitLeaseOff /\ [][NextSerial]_vars

\* A worker with its heartbeat thread, watched by the monitor.
InitBeat == InitAlone({[j \in JobIds |-> "zip"]}, {MAX_GPU_CONCURRENCY})

NextBeat ==
    \/ NextSerial
    \/ \E w \in Workers : heartbeat_args(w)
    \/ \E w \in Workers : send_heartbeat(w)
    \/ \E w \in Workers : heartbeat_thread(w)
    \/ monitor_main

SpecHeartbeat == InitBeat /\ [][NextBeat]_vars

\* The heartbeat thread is a thread of its own (threading.Thread, started
\* before main): it keeps being scheduled whatever the main thread does.
\* Nothing is assumed about the main thread, which may stay blocked for good.
beat_step(w) == heartbeat_args(w) \/ send_heartbeat(w) \/ heartbeat_thread(w)

SpecBeatLive ==
    /\ InitBeat
    /\ [][NextBeat]_vars
    /\ \A w \in Workers : WF_vars(beat_step(w))

\* The monitor alone, reading heartbeat records that workers have left.
InitMonitor ==
    /\ Launched({})
    /\ Uploaded([j \in JobIds |-> "zip"], {})
    /\ limit = MAX_GPU_CONCURRENCY
    /\ now = 0
    /\ shown = [w \in Workers |-> NoRow]
    /\ workers_json \in [Workers -> {NoBeat} \cup
                           {[status |-> "IDLE", job_id |-> NoJob, last_seen |-> t] :
                              t \in 0..1}]

NextMonitor ==
    \/ monitor_main
    \/ Tick
    \/ StoreOutage
    \/ StoreRecover

SpecMonitor == InitMonitor /\ [][NextMonitor]_vars

\* Workers that may be killed at any point, and the monitor looking on.
NextCrash ==
    \/ \E w \in Workers : worker(w)
    \/ \E w \in Workers : crash(w)
    \/ monitor_main

SpecCrash == InitLive /\ [][NextCrash]_vars

\* The upload endpoint serving requests as the seconds pass, on an empty
\* bucket; no worker runs.
InitUpload ==
    /\ Launched({})
    /\ Unobserved
    /\ limit = MAX_GPU_CONCURRENCY
    /\ metadata = [j \in JobIds |-> NoRecord]
    /\ images_zip = [j \in JobIds |-> NoPayload]
    /\ results_json = [j \in JobIds |-> NoResult]
    /\ gpu_locks = {}
    /\ storeUp = TRUE
    /\ overloads = 0
    /\ outages = 0

NextUpload ==
    \/ \E bus_number \in Buses, file \in Payloads \cup {NotZip} :
          upload(bus_number, file)
    \/ Tick

SpecUpload == InitUpload /\ [][NextUpload]_vars

(***************************************************************************)
(* Properties.                                                             *)
(***************************************************************************)

StatusEdges ==
    {<<"pending", "processing">>, <<"processing", "completed">>,
     <<"processing", "failed">>, <<"processing", "pending">>}

\* C1: every job record's status is one of pending, processing, completed,
\* failed, and every change of a stored status follows pending->processing,
\* processing->completed, processing->failed or processing->pending; a
\* completed or failed record is never rewritten to another status.
C1_StatusStateMachine ==
    /\ [](\A j \in JobIds : metadata[j].status \in Statuses)
    /\ [][\A j \in JobIds :
            metadata'[j].status # metadata[j].status
                => <<metadata[j].status, metadata'[j].status>> \in StatusEdges]_vars

\* C2: the workers past a successful acquire_gpu_lock that have not reached
\* their release never number more than MAX_GPU_CONCURRENCY.
C2_LeaseHoldersBounded ==
    Cardinality({w \in Workers : HoldsLease(w)}) <= MAX_GPU_CONCURRENCY

\* C2 witness: one worker holds the lease while another, having written its
\* key in a race, is about to remove it.
C2_Witness ==
    \E w, v \in Workers :
        /\ w # v
        /\ HoldsLease(w)
        /\ pc[v] = "acq_remove"
        /\ gpu_locks = {w, v}

\* A step of worker w that ends its claim_job call.
ClaimReturns(w) == InClaim(w) /\ ~InClaim(w)'

\* ... with the answer True: main goes on to process_job.
ClaimReturnsTrue(w) == ClaimReturns(w) /\ pc'[w] = "acq_list"

\* C3: when worker b's claim of a job reads the record after worker a's claim
\* wrote it as processing, and a is still processing the job, b's claim_job
\* answers not-claimed.
C3_NoDoubleClaimAfterWrite ==
    [][\A a, b \in Workers :
         ( /\ a # b
           /\ pc[b] = "upd_put" /\ upd[b] = "processing"
           /\ md[b].status = "processing" /\ md[b].worker_id = a
           /\ InProcessJob(a) /\ cur[a] = cur[b]
           /\ ClaimReturns(b) )
         => ~ClaimReturnsTrue(b)]_vars

\* C4: a claim_job call that read a record whose status was not pending
\* answers False and leaves the stored record as it is.
C4_ClaimOfNonPendingRefused ==
    [][\A w \in Workers :
         ( /\ pc[w] = "upd_put" /\ upd[w] = "processing"
           /\ md[w].status # "pending"
           /\ ClaimReturns(w) )
         => /\ ~ClaimReturnsTrue(w)
            /\ metadata'[cur[w]] = metadata[cur[w]]]_vars

\* C5: a worker enters process_job for a job only by its own claim_job of
\* that job, the head of its list, answering True (the claim's put went
\* through); a claim answering False moves the loop to the next listed
\* candidate, in listing order, with no job record written.
C5_ProcessOnlyAfterOwnClaim ==
    /\ [](\A w \in Workers : \A i, k \in 1..Len(jobs[w]) :
            i < k => jobs[w][i].job_id < jobs[w][k].job_id)
    /\ [][\A w \in Workers :
            /\ (~InProcessJob(w) /\ InProcessJob(w)')
                 => /\ ClaimReturnsTrue(w)
                    /\ pc[w] = "upd_put" /\ storeUp
                    /\ cur[w] = Head(jobs[w]).job_id
                    /\ cur'[w] = cur[w] /\ jobs'[w] = jobs[w]
                    /\ metadata'[cur[w]].status = "processing"
                    /\ metadata'[cur[w]].worker_id = w
            /\ (ClaimReturns(w) /\ ~ClaimReturnsTrue(w) /\ shutdown'[w] = shutdown[w])
                 => /\ pc'[w] = "next"
                    /\ jobs'[w] = Tail(jobs[w])
                    /\ metadata' = metadata]_vars

\* C5 witness: a claim whose store call is about to fail, with a further
\* candidate listed behind the job.
C5_Witness ==
    \E w \in Workers : InClaim(w) /\ ~storeUp /\ Len(jobs[w]) = 2

\* C6: with acquire_gpu_lock calls running one at a time there are never more
\* than MAX_GPU_CONCURRENCY lease keys, and while that many keys exist no
\* waiting worker acquires and no key is added.
C6_SerialLeaseKeysBounded ==
    /\ [](Cardinality(gpu_locks) <= MAX_GPU_CONCURRENCY)
    /\ [][\A w \in Workers :
            (pc[w] = "acq_list" /\ Cardinality(gpu_locks) >= MAX_GPU_CONCURRENCY)
                => pc'[w] # "download" /\ gpu_locks' \subseteq gpu_locks]_vars

\* C6 witness: a worker polls for the lease while another worker's key fills
\* the limit.
C6_Witness ==
    \E w \in Workers :
        /\ pc[w] = "acq_list"
        /\ w \notin gpu_locks
        /\ Cardinality(gpu_locks) = MAX_GPU_CONCURRENCY

\* C7: a worker leaves process_job only through the finally block, whose
\* release removes the worker's own lease key when the delete goes through;
\* so, as long as the store has never failed, a worker outside process_job
\* has no lease key.
C7_LeaseReleasedOnReturn ==
    /\ [][\A w \in Workers :
            (InProcessJob(w) /\ ~InProcessJob(w)')
                => pc[w] = "finally" /\ (storeUp => w \notin gpu_locks')]_vars
    /\ [](outages = 0 => \A w \in gpu_locks : InProcessJob(w))

\* C7 witness: process_job has returned after a shutdown signal reached the
\* worker while it held the lease, and no key is left.
C7_Witness ==
    \E w \in Workers :
        /\ pc[w] = "next" /\ shutdown[w]
        /\ response[w] = NoResponse
        /\ gpu_locks = {}
        /\ \E j \in JobIds : /\ results_json[j] # NoResult
                             /\ metadata[j].status = "processing"
                             /\ metadata[j].worker_id = w

\* C8: after a 503 answer the worker backs off, counts the attempt (failed
\* up by exactly 1, processed as it was) and writes the job back as pending,
\* never as failed: the write changes the record to pending when the store
\* takes it, and the counters do not move again before process_job returns.
C8_OverloadRequeues ==
    /\ [](\A w \in Workers :
            /\ pc[w] = "backoff" => response[w] = "503"
            /\ (response[w] = "503" /\ InUpdate(w)) => upd[w] = "pending")
    /\ [][\A w \in Workers :
            /\ (response[w] # "503" /\ response'[w] = "503")
                 => pc'[w] = "backoff" /\ stats'[w] = stats[w]
            /\ (pc[w] = "backoff" /\ pc'[w] # "backoff" /\ shutdown'[w] = shutdown[w])
                 => /\ stats'[w].failed = stats[w].failed + 1
                    /\ stats'[w].processed = stats[w].processed
                    /\ pc'[w] = "upd_get" /\ upd'[w] = "pending"
            /\ (response[w] = "503" /\ pc[w] # "backoff") => stats'[w] = stats[w]
            /\ (response[w] = "503" /\ pc'[w] # pc[w]
                    /\ metadata'[cur[w]] # metadata[cur[w]])
                 => metadata'[cur[w]].status = "pending"
            /\ (response[w] = "503" /\ pc[w] = "upd_put" /\ pc'[w] # pc[w]
                    /\ storeUp /\ shutdown'[w] = shutdown[w])
                 => metadata'[cur[w]].status = "pending"]_vars

\* C8 witness: process_job is about to return after a 503, the record is
\* pending again and the attempt has been counted.
C8_Witness ==
    \E w \in Workers :
        /\ pc[w] = "finally" /\ response[w] = "503"
        /\ metadata[cur[w]].status = "pending"
        /\ metadata[cur[w]].worker_id = w
        /\ stats[w] = [processed |-> 0, failed |-> 1]

\* Only one worker process has been started.
Single == Cardinality({w \in Workers : pc[w] # "exited"}) = 1

\* Worker w has just requeued job j after a 503.
Requeued(w, j) ==
    /\ pc[w] = "finally" /\ response[w] = "503"
    /\ cur[w] = j
    /\ metadata[j].status = "pending"

SentToBackend(j) == \E w \in Workers : pc[w] = "backend" /\ cur[w] = j

C10_SingleWorkerSuccess ==
    /\ [](Single => \A w \in Workers :
            (pc[w] = "finally" /\ response[w] = "200")
                => /\ metadata[cur[w]].status = "completed"
                   /\ metadata[cur[w]].worker_id = w
                   /\ result[w] \in BackendResults
                   /\ results_json[cur[w]] = result[w])
    /\ [][Single => \A w \in Workers :
            /\ ClaimReturnsTrue(w)
                 => /\ metadata[cur[w]].status = "pending"
                    /\ metadata'[cur[w]].status = "processing"
            /\ (response[w] = "200" /\ pc[w] = "upd_put" /\ pc'[w] # pc[w])
                 => /\ metadata[cur[w]].status = "processing"
                    /\ metadata'[cur[w]].status = "completed"
                    /\ stats'[w].processed = stats[w].processed + 1
                    /\ stats'[w].failed = stats[w].failed
            /\ (response[w] = "200" /\ pc[w] # "upd_put") => stats'[w] = stats[w]
            /\ (response[w] # "200" /\ response'[w] = "200") => stats'[w] = stats[w]]_vars

\* C10 witness: the only worker is about to return from a successful
\* process_job, its first.
C10_Witness ==
    /\ Single
    /\ \E w \in Workers :
         /\ pc[w] = "finally" /\ response[w] = "200"
         /\ stats[w] = [processed |-> 1, failed |-> 0]

\* The detail process_job hands to update_job_status on a timeout.
TimeoutDetail == "Timeout"

\* The handler of a failed attempt is running: update_job_status(.., 'failed').
Failing(w) == InUpdate(w) /\ upd[w] = "failed"

\* C11: when the backend call times out the job record becomes failed, the
\* store then holds an error detail naming the timeout for the job (in the
\* record or as the job's result), failed goes up by 1, and the finally
\* block removes the worker's lease key.
C11_TimeoutMarksFailed ==
    [][\A w \in Workers :
         /\ (response[w] = "timeout" /\ pc[w] = "upd_put" /\ storeUp
                 /\ pc'[w] = "finally" /\ shutdown'[w] = shutdown[w])
              => /\ metadata'[cur[w]].status = "failed"
                 /\ stats'[w].failed = stats[w].failed + 1
                 /\ \/ metadata'[cur[w]].results = TimeoutDetail
                    \/ results_json'[cur[w]] = TimeoutDetail
         /\ (response[w] = "timeout" /\ pc[w] = "finally" /\ pc'[w] = "next" /\ storeUp)
              => w \notin gpu_locks']_vars

\* A step of worker w in which processing the claimed job raises: the
\* download or the archive, the saving of the result, or a backend answer
\* that is neither success nor overload.
ErrorRaised(w) ==
    /\ pc'[w] # pc[w]
    /\ shutdown'[w] = shutdown[w]
    /\ \/ pc[w] = "download" /\ (~storeUp \/ images_zip[cur[w]] # "zip")
       \/ pc[w] = "save" /\ ~storeUp
       \/ pc[w] = "backend" /\ response'[w] \in {"500", "timeout"}

\* What C12 says of the worker besides the stored record: an error starts
\* the failed write, the attempt is counted once when the write returns,
\* and process_job returns to the for loop, which goes on with the rest of
\* its list; the worker ends only on a shutdown signal.
ErrorsHandled ==
    \A w \in Workers :
        /\ ErrorRaised(w) => Failing(w)' /\ pc'[w] = "upd_get" /\ stats'[w] = stats[w]
        /\ (Failing(w) /\ ~Failing(w)' /\ shutdown'[w] = shutdown[w])
             => /\ pc'[w] = "finally"
                /\ stats'[w].failed = stats[w].failed + 1
                /\ stats'[w].processed = stats[w].processed
        /\ (pc[w] = "finally" /\ pc'[w] # "finally")
             => pc'[w] = "next" /\ jobs'[w] = Tail(jobs[w])
        /\ (pc[w] # "exited" /\ pc'[w] = "exited") => shutdown'[w]

InAcquire(w) == pc[w] \in {"acq_list", "acq_put", "acq_relist", "acq_remove"}

\* What a MinIO call that fails does to the worker that made it: a failed
\* listing leaves an empty list and the loop at its head, a failed get of a
\* listed record skips the object, a failed status write changes no record
\* and answers False (a claim moves on to the next candidate), a failed call
\* in acquire_gpu_lock answers not-acquired and the lease loop polls again;
\* and no worker ends without a shutdown signal.
StoreFailureSurvived ==
    \A w \in Workers :
        /\ (pc[w] # "exited" /\ pc'[w] = "exited") => shutdown'[w]
        /\ (pc[w] = "poll" /\ ~storeUp /\ ~shutdown'[w])
             => pc'[w] = "poll" /\ jobs'[w] = <<>>
        /\ (pc[w] = "scan" /\ ~storeUp /\ scan'[w] # scan[w]
                /\ ~shutdown'[w])
             => jobs'[w] = jobs[w]
        /\ (InUpdate(w) /\ ~storeUp /\ pc'[w] # pc[w] /\ ~shutdown'[w])
             => /\ metadata' = metadata
                /\ IF upd[w] = "processing"
                   THEN pc'[w] = "next" /\ jobs'[w] = Tail(jobs[w])
                   ELSE pc'[w] = "finally"
        /\ (InAcquire(w) /\ ~storeUp /\ ~shutdown'[w])
             => pc'[w] \in {pc[w], "acq_list"}

\* C13: no failing store operation ends a worker - a failed listing gives an
\* empty candidate list, a failed status write gives False, a failed lease
\* acquisition gives not-acquired - and the main loop comes to its next
\* iteration again and again (stated here for a worker running alone, on a
\* store whose outages end).
C13_StoreFailuresSurvived ==
    /\ [][StoreFailureSurvived]_vars
    /\ \A w \in Workers :
         (Single /\ pc[w] # "exited") ~> (pc[w] \in {"poll", "next"})

\* C14: once a worker's shutdown flag is set the worker writes no job
\* record (so no claim) and no lease key, and never reaches the backend; a
\* worker the flag finds in the lease loop leaves the loop for the finally
\* block with the lease keys as they were, and process_job returns.
C14_NoClaimOrLeaseAfterShutdown ==
    /\ [](\A w \in Workers :
            shutdown[w] => pc[w] \in {"finally", "next", "poll", "exited"})
    /\ [][\A w \in Workers :
            /\ shutdown'[w]
                 => /\ \A j \in JobIds :
                         metadata'[j] # metadata[j] => metadata'[j].worker_id # w
                    /\ w \notin gpu_locks => w \notin gpu_locks'
            /\ (InAcquire(w) /\ ~shutdown[w] /\ shutdown'[w])
                 => pc'[w] = "finally" /\ gpu_locks' = gpu_locks
            /\ (shutdown[w] /\ pc[w] = "finally" /\ pc'[w] # "finally")
                 => pc'[w] = "next"]_vars

\* C14 witness: the flag has reached a worker that was polling for the lease
\* another worker holds; it is about to return from process_job, its claimed
\* job never sent to the backend.
C14_Witness ==
    \E w, v \in Workers :
        /\ w # v /\ HoldsLease(v)
        /\ shutdown[w] /\ pc[w] = "finally"
        /\ response[w] = NoResponse
        /\ w \notin gpu_locks
        /\ metadata[cur[w]].status = "processing"
        /\ metadata[cur[w]].worker_id = w

\* C15: with MAX_GPU_CONCURRENCY <= 0 every acquire_gpu_lock call answers
\* True at once, whatever lease keys exist and whether or not the store
\* answers (it makes no store call), and the set of lease keys never changes.
C15_LeasingOffAlwaysAcquires ==
    /\ [](limit <= 0 =>
            \A w \in Workers, up \in [1..4 -> BOOLEAN] :
                acquire_gpu_lock(w, gpu_locks, up) = [ok |-> TRUE, locks |-> gpu_locks])
    /\ [][limit <= 0 =>
            /\ gpu_locks' = gpu_locks
            /\ \A w \in Workers :
                 (pc[w] = "acq_list" /\ ~shutdown'[w]) => pc'[w] \in {"acq_list", "download"}
            /\ \A w \in Workers :
                 (pc[w] = "acq_list" /\ pc'[w] # "acq_list" /\ ~shutdown'[w])
                     => pc'[w] = "download"]_vars

\* C15 witness: leasing is off and a worker is past acquire_gpu_lock while
\* the store is down and another worker's key exists; it has no key itself.
C15_Witness ==
    \E w \in Workers :
        /\ limit <= 0
        /\ pc[w] = "download" /\ ~storeUp
        /\ gpu_locks # {} /\ w \notin gpu_locks

\* C16: release_gpu_lock never raises - the finally block always hands
\* control back to the for loop, the key present or not, the delete failing
\* or not - and a second release changes nothing: for every set of keys two
\* releases leave what one leaves, and so does a release of the keys the
\* finally block has left.  Other workers' keys are not touched.
C16_ReleaseIdempotent ==
    /\ [](\A w \in Workers, locks \in SUBSET Workers :
            release_gpu_lock(w, release_gpu_lock(w, locks)) = release_gpu_lock(w, locks))
    /\ [][\A w \in Workers :
            (pc[w] = "finally" /\ pc'[w] # "finally")
                => /\ pc'[w] = "next"
                   /\ gpu_locks' = release_gpu_lock(w, gpu_locks)
                   /\ release_gpu_lock(w, gpu_locks') = gpu_locks'
                   /\ gpu_locks' \ {w} = gpu_locks \ {w}]_vars

\* C16 witness: a worker stopped while polling for the lease has run its
\* release without having a key; process_job has returned and the other
\* worker's key is still there.
C16_Witness ==
    \E w, v \in Workers :
        /\ w # v
        /\ pc[w] = "next" /\ shutdown[w]
        /\ gpu_locks = {v}
        /\ \E j \in JobIds : /\ metadata[j].status = "processing"
                             /\ metadata[j].worker_id = w

\* C17: nothing in claim_job looks at what the record has become: its get
\* takes whatever is stored, and its put, when the store accepts it, writes
\* processing over any record and answers True, the worker entering
\* process_job for the job.  So two workers that have both read a job as
\* pending both claim it and both process it.
C17_ConcurrentClaimsBothSucceed ==
    [][\A w \in Workers :
         /\ (pc[w] = "upd_get" /\ upd[w] = "processing" /\ storeUp
                 /\ pc'[w] # pc[w] /\ ~shutdown'[w])
              => pc'[w] = "upd_put" /\ md'[w] = metadata[cur[w]]
         /\ (pc[w] = "upd_put" /\ upd[w] = "processing" /\ storeUp
                 /\ pc'[w] # pc[w] /\ ~shutdown'[w])
              => /\ ClaimReturnsTrue(w)
                 /\ InProcessJob(w)' /\ cur'[w] = cur[w]
                 /\ metadata'[cur[w]].status = "processing"
                 /\ metadata'[cur[w]].worker_id = w]_vars

\* C17 witness: worker b read job j as pending and has not yet written;
\* worker a, which read it as pending too, has claimed it and is at the
\* backend with it.  No job has been requeued, so both reads came before
\* both writes.
C17_Witness ==
    \E a, b \in Workers :
        /\ a # b
        /\ overloads = 0
        /\ pc[a] = "backend" /\ cur[a] = cur[b]
        /\ metadata[cur[a]].status = "processing" /\ metadata[cur[a]].worker_id = a
        /\ pc[b] = "upd_put" /\ upd[b] = "processing"
        /\ md[b].status = "pending"

\* C18: a heartbeat whose put fails changes nothing in the store - no
\* heartbeat, job or lease record - and nothing of the main thread; the
\* heartbeat thread goes to its sleep and from there to the next beat, and
\* ends only once shutdown is set; the worker ends only on shutdown.
C18_FailedBeatSkipped ==
    [][\A w \in Workers :
         /\ (Sending(w) /\ hb'[w] # hb[w] /\ ~storeUp)
              => /\ hb'[w] = "sleep"
                 /\ workers_json' = workers_json
                 /\ metadata' = metadata /\ results_json' = results_json
                 /\ gpu_locks' = gpu_locks /\ images_zip' = images_zip
                 /\ pc' = pc /\ jobs' = jobs /\ stats' = stats
         /\ (hb[w] = "sleep" /\ hb'[w] # "sleep" /\ ~shutdown[w]) => hb'[w] = "beat"
         /\ (hb[w] # "done" /\ hb'[w] = "done") => shutdown[w]
         /\ (pc[w] # "exited" /\ pc'[w] = "exited") => shutdown'[w]]_vars

\* C18 witness: the worker's first beat failed (it has no heartbeat record
\* and its thread is asleep), and the main thread has since claimed a job
\* and is at the backend with it.
C18_Witness ==
    \E w \in Workers :
        /\ hb[w] = "sleep" /\ workers_json[w] = NoBeat
        /\ pc[w] = "backend" /\ ~shutdown[w]

\* C19: no step deletes a job record, a payload, a stored result or a
\* heartbeat record; a lease key disappears only in a step of the worker it
\* belongs to, in the finally block or in acquire_gpu_lock after a lost race.
C19_OnlyOwnLeaseKeyDeleted ==
    [][/\ \A j \in JobIds :
            /\ metadata'[j].status \in Statuses
            /\ results_json[j] # NoResult => results_json'[j] # NoResult
       /\ images_zip' = images_zip
       /\ \A w \in Workers : workers_json[w] # NoBeat => workers_json'[w] # NoBeat
       /\ \A v \in gpu_locks \ gpu_locks' :
            /\ pc[v] \in {"finally", "acq_remove"}
            /\ pc'[v] # pc[v]
            /\ \A u \in Workers \ {v} :
                 pc'[u] = pc[u] /\ (u \in gpu_locks => u \in gpu_locks')]_vars

\* C19 witness: a worker has finished a job and deleted its own lease key;
\* its heartbeat record, the job's record and result are in the store and
\* the monitor has shown the worker.
C19_Witness ==
    \E w \in Workers : \E j \in JobIds :
        /\ pc[w] = "next" /\ stats[w].processed = 1
        /\ gpu_locks = {}
        /\ metadata[j].status = "completed" /\ results_json[j] # NoResult
        /\ workers_json[w] # NoBeat /\ workers_json[w].status = "PROCESSING"
        /\ shown[w] # NoRow

\* C20: the monitor marks a heartbeat stale exactly when its age in whole
\* seconds exceeds 30, and fresh otherwise: fresh at 29 and at 30, stale at 31.
C20_StaleExactlyAbove30 ==
    \A w \in Workers :
        shown[w] # NoRow =>
            /\ shown[w].prefix \in {"[OK]", "[STALE]"}
            /\ shown[w].prefix = "[STALE]" <=> shown[w].delta > 30

\* GET /jobs/{job_id} of the results API: what a reader of the job record is
\* shown (the endpoint reads metadata.json only).
get_job(j) ==
    [job_id |-> j, status |-> metadata[j].status,
     results |-> metadata[j].results]

\* C21: a job record whose status is completed or failed carries the outcome
\* in the record itself (the backend result, or the error detail), so the
\* results-query endpoint shows it.
C21_OutcomeInRecord ==
    \A j \in JobIds :
        get_job(j).status \in {"completed", "failed"}
            => get_job(j).results # NoResult

\* C22: in every reachable state a results.json object exists for a job only
\* if the job's record is completed; no pending, processing or failed job has
\* one.
C22_ResultsOnlyWithCompleted ==
    \A j \in JobIds :
        results_json[j] # NoResult => metadata[j].status = "completed"

\* A worker killed while it held a lease, its lease key still in the store.
Leaked(w) == pc[w] = "crashed_holding" /\ w \in gpu_locks

\* C23: the lease key of a worker that crashed while holding a lease stays in
\* the store in every later state: nothing removes it, nothing requeues the
\* job the crashed worker owned, and with a limit of 1 no worker acquires a
\* lease afterwards.
C23_CrashedLeaseLeaks ==
    [][\A w \in Workers :
         Leaked(w) =>
            /\ Leaked(w)'
            /\ \A j \in JobIds :
                 (metadata[j].status = "processing" /\ metadata[j].worker_id = w)
                     => metadata'[j].status # "pending"
            /\ limit = 1 =>
                 \A v \in Workers : ~HoldsLease(v) => ~HoldsLease(v)']_vars

C23_Witness ==
    \E w, v \in Workers, j \in JobIds :
        /\ Leaked(w)
        /\ metadata[j].status = "processing" /\ metadata[j].worker_id = w
        /\ pc[v] = "acq_list" /\ cur[v] # j
        /\ metadata[cur[v]].worker_id = v
        /\ gpu_locks = {w}

\* C25: every heartbeat record written holds a consistent pair: PROCESSING
\* with the id of the job the worker is inside process_job for, or IDLE with
\* no job id.
C25_HeartbeatPairConsistent ==
    [][\A w \in Workers :
         workers_json'[w] # workers_json[w] =>
            \/ /\ workers_json'[w].status = "IDLE"
               /\ workers_json'[w].job_id = NoJob
            \/ /\ workers_json'[w].status = "PROCESSING"
               /\ InProcessJob(w)
               /\ workers_json'[w].job_id = cur[w]]_vars

\* The worker has been told to shut down, or is gone.
Gone(w) == shutdown[w] \/ pc[w] = "exited"

\* C24: while the worker has not shut down its heartbeat thread keeps
\* beating: again and again it is about to beat, and again and again it has
\* just called send_heartbeat - also while the main thread stays in the lease
\* poll, the backoff or the backend call.  The thread never waits for the
\* main loop.
C24_HeartbeatsKeepComing ==
    \A w \in Workers :
        /\ []<>(Gone(w) \/ hb[w] = "beat")
        /\ []<>(Gone(w) \/ hb[w] = "sleep")

\* C24 witness: the main thread polls for a lease behind another worker's
\* key, and the heartbeat written since it entered process_job is in the
\* store.
C24_Witness ==
    \E w \in Workers :
        /\ pc[w] = "acq_list" /\ ~shutdown[w]
        /\ gpu_locks # {} /\ w \notin gpu_locks
        /\ hb[w] = "sleep"
        /\ workers_json[w].status = "PROCESSING"
        /\ workers_json[w].job_id = cur[w]

\* C26: get_pending_jobs returns exactly the jobs whose record is pending
\* when it is read, in listing order; it never returns the reserved prefixes
\* workers and gpu_locks, skips without failing an entry whose metadata cannot
\* be read, and writes nothing to the store.
C26_PendingJobsListed ==
    [][\A w \in Workers :
         (/\ pc[w] = "scan" /\ shutdown'[w] = shutdown[w]
          /\ (pc'[w] # pc[w] \/ scan'[w] # scan[w]))
           => LET obj == list_objects[scan[w]]
                  readable == storeUp
              IN /\ ~Reserved(obj) /\ obj.job_id \in JobIds
                 /\ \A i \in 1..Len(jobs[w]) :
                      /\ jobs[w][i].status = "pending"
                      /\ jobs[w][i].job_id < obj.job_id
                 /\ jobs'[w] =
                      IF readable /\ metadata[obj.job_id].status = "pending"
                      THEN Append(jobs[w], [job_id |-> obj.job_id,
                                            status |-> "pending"])
                      ELSE jobs[w]
                 /\ pc'[w] \in {"scan", "next", "poll"}
                 /\ pc'[w] = "scan" <=> NextObject(scan[w]) # 0
                 /\ metadata' = metadata /\ results_json' = results_json
                 /\ gpu_locks' = gpu_locks /\ images_zip' = images_zip
                 /\ workers_json' = workers_json]_vars

\* C26 witness: the first job's metadata could not be read and was skipped -
\* it is pending and untouched, yet not in the list - and get_pending_jobs
\* has returned the second job.
C26_Witness ==
    \E w \in Workers :
        /\ pc[w] = "next" /\ cur[w] = NoJob
        /\ metadata[1] = NewJob(1)
        /\ Len(jobs[w]) = 1 /\ jobs[w][1].job_id = 2
        /\ stats[w] = [processed |-> 0, failed |-> 0]

\* C27: a status update by worker w changes only status, the owner (set to
\* w) and updated_at of the job's record and leaves job_id, the bus number
\* and every other field, and every other record, unchanged; when the update
\* fails the stored record is unchanged and the call returns false (a claim
\* is then given up); nothing but a status update changes a record.
C27_UpdateChangesThreeFields ==
    [][/\ \A w \in Workers :
            (InUpdate(w) /\ ~InUpdate(w)' /\ shutdown'[w] = shutdown[w])
              => IF pc[w] = "upd_put" /\ storeUp
                 THEN /\ metadata' =
                           [metadata EXCEPT ![cur[w]] =
                              [@ EXCEPT !.status = upd[w], !.worker_id = w,
                                        !.updated_at = now]]
                      /\ upd[w] = "processing" => pc'[w] = "acq_list"
                 ELSE /\ metadata' = metadata
                      /\ upd[w] = "processing" => pc'[w] = "next"
       /\ \A j \in JobIds :
            metadata'[j] # metadata[j]
              => \E w \in Workers :
                   pc[w] = "upd_put" /\ cur[w] = j /\ pc'[w] # pc[w]]_vars

\* C27 witness: one record was updated twice by a worker (claimed, then
\* completed) and still has its job id and bus number; another update of the
\* same worker failed and left the record as it was, processing.
C27_Witness ==
    \E w \in Workers, j, k \in JobIds :
        /\ metadata[j] = [NewJob(j) EXCEPT !.status = "completed",
                                           !.worker_id = w, !.updated_at = now]
        /\ metadata[k] = [NewJob(k) EXCEPT !.status = "processing",
                                           !.worker_id = w, !.updated_at = now]
        /\ ~InProcessJob(w) /\ ~InUpdate(w)
        /\ stats[w].processed + stats[w].failed = 2

\* C28: two accepted uploads never receive the same job id, not even two
\* uploads for the same bus within the same second: an upload never
\* overwrites the record or the payload of an existing job.
C28_UploadNeverOverwrites ==
    [][\A j \in JobIds :
         (metadata[j] # NoRecord \/ images_zip[j] # NoPayload)
            => metadata'[j] = metadata[j] /\ images_zip'[j] = images_zip[j]]_vars

\* The job has reached an end: completed or failed.
Finished(j) == metadata[j].status \in {"completed", "failed"}

C30_NoProcessingRecordLeftBehind ==
    [][\A w \in Workers :
         (InProcessJob(w) /\ ~InProcessJob(w)')
            => ~(/\ metadata'[cur[w]].status = "processing"
                 /\ metadata'[cur[w]].worker_id = w)]_vars

\* C31: after an acquire_gpu_lock call that returns failure - also one whose
\* re-list or clean-up delete raised after the key was written - no lease key
\* of the calling worker is in the store.
C31_FailedAcquireLeavesNoKey ==
    [][\A w \in Workers :
         (pc[w] \in {"acq_put", "acq_relist", "acq_remove"} /\ pc'[w] = "acq_list")
            => w \notin gpu_locks']_vars

\* Worker w is polling acquire_gpu_lock, the shutdown flag not set.
Polling(w) == InAcquire(w) /\ ~shutdown[w]

\* Fewer leases are held than the limit allows.
LeaseFree == Cardinality({w \in Workers : HoldsLease(w)}) < limit

\* C32: if fewer than N leases are held and workers keep polling
\* acquire_gpu_lock (no shutdown, no store failure), then under fair
\* scheduling some worker eventually acquires a lease: concurrent acquirers
\* cannot keep rejecting each other for ever.
C32_SomePollerAcquires ==
    (LeaseFree /\ \E w \in Workers : Polling(w))
        ~> (\E w \in Workers : HoldsLease(w))

\* C33: in every reachable state a job whose record is completed has a
\* results.json object in the store; the result is stored before the status
\* is flipped, and a failed result write never yields a completed record.
C33_CompletedHasResults ==
    /\ [](\A j \in JobIds :
            metadata[j].status = "completed" => results_json[j] # NoResult)
    /\ [][\A w \in Workers :
            (pc[w] = "save" /\ ~storeUp /\ pc'[w] # pc[w])
               => upd'[w] # "completed" /\ results_json' = results_json]_vars

\* C33 witness: a result write failed and the job ended failed, without a
\* results.json; another job is completed and has its results.json.
C33_Witness ==
    \E j, k \in JobIds :
        /\ metadata[j].status = "completed" /\ results_json[j] # NoResult
        /\ metadata[k].status = "failed" /\ results_json[k] = NoResult
        /\ \E w \in Workers : metadata[k].worker_id = w /\ response[w] = "200"
                                /\ cur[w] = k /\ pc[w] = "finally"

====
